---- MODULE Spec2Model ----
(***************************************************************************)
(* Skill tools UI of the workspace front end: the create card              *)
(* (NewSkillCard), the install modal (SkillModal) and the provider list    *)
(* (SkillList).                                                            *)
(*                                                                         *)
(* Strings of the program are sequences of one-character strings, so that  *)
(* trim, endsWith, toLowerCase and includes are computed, not assumed.     *)
(* Translation keys and server messages, which the code only passes on,    *)
(* are plain TLA+ strings (t(key) is rendered as the key).                 *)
(*                                                                         *)
(* An async handler is one action up to its await and one action per way   *)
(* the awaited promise settles.  `calls` is the observation of the handler *)
(* that ran last: the calls it made to its collaborators (the mutation     *)
(* hooks, Toast, the props onConfirm and onHide), in order.                *)
(***************************************************************************)
EXTENDS Naturals, Sequences, FiniteSets, TLC

\* ---------------------------------------------------------------- bounds
\* SkillModal instances mounted in one run
MaxMounts == 2
\* install/upload requests issued in one run
MaxSubmits == 2
\* providers in the list returned by the server
MaxListLen == 2
\* queries in the cache of a session
MaxCached == 2
\* skill providers in the workspace when the page is opened
MaxServer == 1
\* characters of a search text
MaxSearchLen == 2

\* ---------------------------------------------------------------- values
undefined == <<"undefined">>
null == <<"null">>
main == <<"m", "a", "i", "n">>
zipSuffix == <<".", "z", "i", "p">>

\* what the user may type into a text field
TextInputs == { <<>>, <<" ">>, <<" ", "a", " ">> }

\* what the file picker may deliver: e.target.files?.[0]
PickedFiles ==
    { undefined,
      <<"a", ".", "z", "i", "p">>,
      <<"b", ".", "z", "i", "p">>,
      <<"a", ".", "Z", "I", "P">>,
      <<"a", ".", "z", "i", "p", "x">>,
      <<"z", "i", "p">> }

\* the skill providers of the workspace, as the list endpoint returns them
\* (the fields the list reads)
SkillProviders ==
    { [id |-> "skill-1", name |-> <<"A", "b">>, skill_identifier |-> <<"a", "b">>],
      [id |-> "skill-2", name |-> <<"B">>, skill_identifier |-> <<"b", "a">>],
      [id |-> "skill-3", name |-> <<"a", "a">>, skill_identifier |-> <<"B", "B">>] }

\* the lists the server may return: no provider twice
ProviderLists ==
    UNION { { l \in [1..n -> SkillProviders] : \A i, j \in 1..n : l[i] = l[j] => i = j }
            : n \in 0..MaxListLen }

SearchChars == { "a", "A", "b" }

\* what the search box may hold
SearchTexts == UNION { [1..n -> SearchChars] : n \in 0..MaxSearchLen }

\* the providers a server may answer an install or an upload with
ProviderIds == { "skill-1", "skill-2" }

\* what a request may be rejected with: an Error with a message, one with an
\* empty message, and a value without a message field (a Response)
Errors == { [message |-> "skill already installed"], [message |-> ""], [status |-> 500] }

TabType == { "git", "upload" }

\* ---------------------------------------------------------------- strings
isWhitespace(c) == c = " "

RECURSIVE trimStart(_)
trimStart(s) ==
    IF s # <<>> /\ isWhitespace(Head(s)) THEN trimStart(Tail(s)) ELSE s

RECURSIVE trimEnd(_)
trimEnd(s) ==
    IF s # <<>> /\ isWhitespace(s[Len(s)]) THEN trimEnd(SubSeq(s, 1, Len(s) - 1)) ELSE s

trim(s) == trimEnd(trimStart(s))

endsWith(s, suffix) ==
    /\ Len(s) >= Len(suffix)
    /\ SubSeq(s, Len(s) - Len(suffix) + 1, Len(s)) = suffix

\* the letters of the model's alphabet that have a lower case of their own
toLowerCaseChar(c) ==
    CASE c = "A" -> "a"
      [] c = "B" -> "b"
      [] OTHER -> c

toLowerCase(s) == [i \in 1..Len(s) |-> toLowerCaseChar(s[i])]

startsWith(s, prefix) ==
    /\ Len(s) >= Len(prefix)
    /\ SubSeq(s, 1, Len(prefix)) = prefix

RECURSIVE includes(_, _)
includes(s, searchString) ==
    \/ startsWith(s, searchString)
    \/ s # <<>> /\ includes(Tail(s), searchString)

\* a || b on strings: the empty string is falsy
orElse(a, b) == IF a # <<>> THEN a ELSE b

\* ---------------------------------------------------------------- state
VARIABLES
    isCurrentWorkspaceManager,  \* useAppContext()
    showModal,                  \* NewSkillCard
    activeTab, isLoading, gitUrl, gitBranch, name, file,  \* SkillModal
    mounts,                     \* SkillModal instances mounted so far
    inflight,                   \* install/upload requests awaiting their response
    issued,                     \* number of requests issued so far
    rejected,                   \* ids of the requests that were rejected
    submitted,                  \* history: the form as it was when the pending
                                \* request of the mounted modal was issued, or
                                \* null; untracked in the runs that do not keep it
    calls,                      \* the calls made by the handler that ran last
    list,                       \* SkillList: the data of useSkillProviders()
    searchText,                 \* SkillList: the searchText prop
    filteredList,               \* SkillList: the providers whose cards are rendered
    cached,                     \* QueryClient: the keys of the queries in the cache
    stale,                      \* QueryClient: the cached queries marked stale
    server,                     \* the skill providers of the workspace, on the server
    listFetching,               \* useSkillProviders(): a fetch of the list is in flight
    creating,                   \* SkillList: the providers whose handleCreate awaits refetch()
    currentProviderID,          \* SkillList
    currentProvider,            \* SkillList: the memo list.find(...)
    isShowDeleteConfirm,        \* SkillCard: the ids of the cards whose flag is true
    deleting,                   \* SkillCard: the ids of the cards whose flag is true
    deletes,                    \* DELETE requests awaiting their response
    providerId,                 \* SkillDetailContent: its prop, while it is mounted
    detailFetching,             \* useSkillProviderDetail: the ids being fetched
    detailData                  \* useSkillProviderDetail: the ids whose query has data

form == <<activeTab, gitUrl, gitBranch, name, file>>
vars == <<isCurrentWorkspaceManager, showModal, activeTab, isLoading, gitUrl,
          gitBranch, name, file, mounts, inflight, issued, rejected, submitted,
          calls, list, searchText, filteredList, cached, stale, server, listFetching,
          creating, currentProviderID, currentProvider, isShowDeleteConfirm, deleting,
          deletes, providerId, detailFetching, detailData>>
listVars == <<list, searchText, filteredList>>
modalVars == <<showModal, activeTab, isLoading, gitUrl, gitBranch, name, file, mounts,
               inflight, issued, rejected, submitted>>
cacheVars == <<cached, stale>>
fetchVars == <<server, listFetching, creating>>
selectionVars == <<currentProviderID, currentProvider>>
cardVars == <<isShowDeleteConfirm, deleting, deletes>>
detailVars == <<providerId, detailFetching, detailData>>
pageVars == <<cacheVars, fetchVars, selectionVars, cardVars, detailVars>>

untracked == <<"untracked">>

\* the history is kept from the start of a run or not at all
remember(value) == IF submitted = untracked THEN untracked ELSE value

Call(fn, arg, req) == [fn |-> fn, arg |-> arg, req |-> req]
none == [none |-> TRUE]

\* ---------------------------------------------------------------- query keys
NAME_SPACE == "tools"

useAllToolProvidersKey == <<NAME_SPACE, "allToolProviders">>
useAllBuiltInToolsKey == <<NAME_SPACE, "builtIn">>
useAllCustomToolsKey == <<NAME_SPACE, "customTools">>
useAllWorkflowToolsKey == <<NAME_SPACE, "workflowTools">>
useAllMCPToolsKey == <<NAME_SPACE, "MCPTools">>
useAllSkillToolsKey == <<NAME_SPACE, "skillTools">>
useRAGRecommendedPluginListKey == <<NAME_SPACE, "rag-recommended-plugins">>

\* the queryKey of each query hook that takes an argument
useMCPToolsKey(providerID) == <<NAME_SPACE, "get-MCP-provider-tool", providerID>>
useMCPServerDetailKey(appID) == <<NAME_SPACE, "MCPServerDetail", appID>>
useSkillProvidersKey == <<NAME_SPACE, "skill-providers">>

\* variant: the detail of a provider is keyed under the key of the list
useSkillProviderDetailKey_underList(id) ==
    <<NAME_SPACE, "skill-providers", id>>

useSkillProviderDetailKey(id) ==
    <<NAME_SPACE, "skill-provider-detail", id>>

useBuiltinProviderInfoKey(providerName) ==
    <<NAME_SPACE, "builtin-provider-info", providerName>>
useBuiltinToolsKey(providerName) ==
    <<NAME_SPACE, "builtin-provider-tools", providerName>>
useRAGRecommendedPluginsKey(type) == useRAGRecommendedPluginListKey \o <<type>>
useAppTriggersKey(appId) == <<NAME_SPACE, "app-triggers", appId>>

\* the members of CollectionType that name a partition of the tools
CollectionType == { "builtIn", "custom", "workflow", "mcp", "skill" }

\* a string argument that is not passed
absent == "(undefined)"

\* Object.prototype, which every object literal inherits from, and the value
\* of one of its methods
Object_prototype == <<"Object.prototype">>
ObjectPrototypeMethods == { "constructor", "toString" }
inheritedMethod(member) == <<"function", member>>

\* what useInvalidToolsByType may be called with: the partitions, no
\* argument, the empty string, the type of another kind of collection, and
\* names that every object answers to
TypeInputs ==
    CollectionType \cup { absent, "", "model", "__proto__" } \cup ObjectPrototypeMethods

\* the ids and names a query is scoped by
ScopeIds == ProviderIds
RAGTypes == { "tool", "datasource", "all" }

\* a use of a query hook with its queryKey
Query(hook, queryKey) == [hook |-> hook, queryKey |-> queryKey]

\* the query hooks of the module, with the arguments they may be given
QueryHooks ==
    { Query("useAllToolProviders", useAllToolProvidersKey),
      Query("useAllBuiltInTools", useAllBuiltInToolsKey),
      Query("useAllCustomTools", useAllCustomToolsKey),
      Query("useAllWorkflowTools", useAllWorkflowToolsKey),
      Query("useAllMCPTools", useAllMCPToolsKey),
      Query("useAllSkillTools", useAllSkillToolsKey),
      Query("useSkillProviders", useSkillProvidersKey) }
    \cup { Query("useMCPTools", useMCPToolsKey(id)) : id \in ScopeIds }
    \cup { Query("useMCPServerDetail", useMCPServerDetailKey(id)) : id \in ScopeIds }
    \cup { Query("useSkillProviderDetail", useSkillProviderDetailKey(id)) : id \in ScopeIds }
    \cup { Query("useBuiltinProviderInfo", useBuiltinProviderInfoKey(id)) : id \in ScopeIds }
    \cup { Query("useBuiltinTools", useBuiltinToolsKey(id)) : id \in ScopeIds }
    \cup { Query("useAppTriggers", useAppTriggersKey(id)) : id \in ScopeIds }
    \cup { Query("useRAGRecommendedPlugins", useRAGRecommendedPluginsKey(type)) :
              type \in RAGTypes }

\* the keys under which these queries are cached
QueryKeys == { query.queryKey : query \in QueryHooks }

\* useInvalidToolsKeyMap[type]: the own properties of the object literal,
\* then those of its prototype
useInvalidToolsKeyMap(type) ==
    CASE type = "builtIn" -> useAllBuiltInToolsKey
      [] type = "custom" -> useAllCustomToolsKey
      [] type = "workflow" -> useAllWorkflowToolsKey
      [] type = "mcp" -> useAllMCPToolsKey
      [] type = "skill" -> useAllSkillToolsKey
      [] type = "__proto__" -> Object_prototype
      [] type \in ObjectPrototypeMethods -> inheritedMethod(type)
      [] OTHER -> undefined

\* ---------------------------------------------------------------- QueryClient
typeOf(value) ==
    IF value = undefined THEN "undefined"
    ELSE IF Head(value) = "function" THEN "function"
    ELSE "object"

\* Object.keys: the indices of an array; Object.prototype has no enumerable
\* property of its own
ObjectKeys(value) == IF value = Object_prototype THEN {} ELSE DOMAIN value

\* the filter of invalidateQueries({ queryKey }): the key of a cached query
\* matches when the filter is a prefix of it
partialMatchKey(a, b) ==
    \/ a = b
    \/ /\ typeOf(a) = "object"
       /\ typeOf(b) = "object"
       /\ \A k \in ObjectKeys(b) : k \in ObjectKeys(a) /\ a[k] = b[k]

invalidateQueries(queryKey) ==
    /\ stale' = stale \cup { q \in cached : partialMatchKey(q, queryKey) }
    /\ cached' = cached

\* useInvalid(key) of use-base: the function it returns does nothing without
\* a key
useInvalid(key) ==
    IF key = undefined
      THEN UNCHANGED cacheVars
      ELSE invalidateQueries(key)

\* variant: the modal stays mounted while it is hidden, and keeps its state
SkillModalMounted_kept ==
    UNCHANGED <<activeTab, isLoading, gitUrl, gitBranch, name, file, submitted>>

\* the useState initial values of SkillModal
SkillModalMounted ==
    /\ activeTab' = "git"
    /\ isLoading' = FALSE
    /\ gitUrl' = <<>>
    /\ gitBranch' = main
    /\ name' = <<>>
    /\ file' = null
    /\ submitted' = remember(null)

\* the cache of a session in which the skill providers and the skill tools
\* were listed, and nothing is stale
SkillPageCached ==
    /\ cached = { useSkillProvidersKey, useAllSkillToolsKey }
    /\ stale = {}

\* the first render of the page: the modal is not shown, its state is the
\* initial one, nothing was requested and the list holds its default []
PageRendered ==
    /\ showModal = FALSE
    /\ activeTab = "git"
    /\ isLoading = FALSE
    /\ gitUrl = <<>>
    /\ gitBranch = main
    /\ name = <<>>
    /\ file = null
    /\ inflight = {}
    /\ issued = 0
    /\ rejected = {}
    /\ list = <<>>
    /\ searchText = <<>>
    /\ filteredList = <<>>

\* list.find(...) that finds nothing
noProvider == [id |-> absent]

\* the prop of a SkillDetailContent that is not rendered
unmounted == "(unmounted)"

\* the first render of SkillList: nothing is selected, no card is mounted
SkillListMounted ==
    /\ currentProviderID = absent
    /\ currentProvider = noProvider
    /\ creating = {}
    /\ isShowDeleteConfirm = {}
    /\ deleting = {}
    /\ deletes = {}
    /\ providerId = unmounted
    /\ detailFetching = {}
    /\ detailData = {}

\* the create card on its own: the workspace has no skill provider yet and
\* the list is not being fetched
Init ==
    /\ isCurrentWorkspaceManager \in BOOLEAN
    /\ PageRendered
    /\ mounts = 0
    /\ submitted = untracked
    /\ calls = <<>>
    /\ SkillPageCached
    /\ SkillListMounted
    /\ server = <<>>
    /\ listFetching = FALSE

requestVars == <<inflight, issued, rejected>>

\* ---------------------------------------------------------------- NewSkillCard
\* the create card's onClick: setShowModal(true); the card is rendered for a
\* workspace manager only, and a shown modal covers it
openModal ==
    /\ isCurrentWorkspaceManager
    /\ ~showModal
    /\ mounts < MaxMounts
    /\ showModal' = TRUE
    /\ mounts' = mounts + 1
    /\ SkillModalMounted
    /\ calls' = <<>>
    /\ UNCHANGED <<isCurrentWorkspaceManager, listVars, pageVars, requestVars>>

\* onHide={() => setShowModal(false)}: SkillModal is rendered only while
\* showModal holds, so its state is dropped with it
onHide ==
    /\ showModal' = FALSE
    /\ SkillModalMounted

\* ---------------------------------------------------------------- SkillModal
\* variant: switching the tab resets the form of the tab that is left
setActiveTab_resetsHidden(tab) ==
    /\ showModal
    /\ activeTab' = tab
    /\ gitUrl' = IF tab = "upload" THEN <<>> ELSE gitUrl
    /\ file' = IF tab = "git" THEN null ELSE file
    /\ calls' = <<>>
    /\ UNCHANGED <<isCurrentWorkspaceManager, listVars, pageVars, showModal, isLoading, gitBranch,
                   name, mounts, requestVars, submitted>>

setActiveTab(tab) ==
    /\ showModal
    /\ activeTab' = tab
    /\ calls' = <<>>
    /\ UNCHANGED <<isCurrentWorkspaceManager, listVars, pageVars, showModal, isLoading, gitUrl, gitBranch,
                   name, file, mounts, requestVars, submitted>>

\* {activeTab === 'git' && (...)} and {activeTab === 'upload' && (...)}
gitFormShown == showModal /\ activeTab = "git"
uploadFormShown == showModal /\ activeTab = "upload"

setGitUrl(value) ==
    /\ gitFormShown
    /\ gitUrl' = value
    /\ calls' = <<>>
    /\ UNCHANGED <<isCurrentWorkspaceManager, listVars, pageVars, showModal, activeTab, isLoading, gitBranch,
                   name, file, mounts, requestVars, submitted>>

setGitBranch(value) ==
    /\ gitFormShown
    /\ gitBranch' = value
    /\ calls' = <<>>
    /\ UNCHANGED <<isCurrentWorkspaceManager, listVars, pageVars, showModal, activeTab, isLoading, gitUrl,
                   name, file, mounts, requestVars, submitted>>

\* the display name input is rendered on both tabs
setName(value) ==
    /\ showModal
    /\ name' = value
    /\ calls' = <<>>
    /\ UNCHANGED <<isCurrentWorkspaceManager, listVars, pageVars, showModal, activeTab, isLoading, gitUrl,
                   gitBranch, file, mounts, requestVars, submitted>>

\* variant: the extension is looked for anywhere in the name
isZip_anywhere(fileName) ==
    \E i \in 1..Len(fileName) :
        /\ i + Len(zipSuffix) - 1 <= Len(fileName)
        /\ SubSeq(fileName, i, i + Len(zipSuffix) - 1) = zipSuffix

\* selectedFile.name.endsWith('.zip')
isZip(fileName) == endsWith(fileName, zipSuffix)

handleFileChange(selectedFile) ==
    /\ uploadFormShown
    /\ IF selectedFile # undefined
          THEN IF ~isZip(selectedFile)
                 THEN /\ calls' = <<Call("Toast.notify",
                                         [type |-> "error",
                                          message |-> "tools.skill.errors.invalidFileType"], 0)>>
                      /\ file' = file
                 ELSE /\ calls' = <<>>
                      /\ file' = selectedFile
          ELSE /\ calls' = <<>>
               /\ file' = file
    /\ UNCHANGED <<isCurrentWorkspaceManager, listVars, pageVars, showModal, activeTab, isLoading, gitUrl,
                   gitBranch, name, mounts, requestVars, submitted>>

\* variant: the URL is tested without trimming
gitUrlMissing_untrimmed == gitUrl = <<>>

\* !gitUrl.trim()
gitUrlMissing == trim(gitUrl) = <<>>

\* variant: a filled git URL stands in for the file
fileMissing_unlessUrl == file = null /\ trim(gitUrl) = <<>>

\* !file
fileMissing == file = null

\* variant: the fields are sent as typed
installPayload_untrimmed ==
    [source_type |-> "git",
     git_url |-> gitUrl,
     git_branch |-> orElse(gitBranch, main),
     name |-> orElse(name, undefined)]

installPayload ==
    [source_type |-> "git",
     git_url |-> trim(gitUrl),
     git_branch |-> orElse(trim(gitBranch), main),
     name |-> orElse(trim(name), undefined)]

uploadPayload ==
    [file |-> file,
     name |-> orElse(trim(name), undefined)]

\* variant: the install button is never disabled
submitDisabled_never == FALSE

\* the install button: disabled={isLoading}
submitDisabled == isLoading

\* the cancel button: disabled={isLoading}
cancelDisabled == isLoading

\* variant: setIsLoading(true) comes before the validation
submitInvalid_loading(message) ==
    /\ calls' = <<Call("Toast.notify", [type |-> "error", message |-> message], 0)>>
    /\ isLoading' = TRUE
    /\ UNCHANGED <<isCurrentWorkspaceManager, listVars, pageVars, showModal, activeTab, gitUrl,
                   gitBranch, name, file, mounts, requestVars, submitted>>

\* the validation failures of handleSubmit: a toast and a return
submitInvalid(message) ==
    /\ calls' = <<Call("Toast.notify", [type |-> "error", message |-> message], 0)>>
    /\ UNCHANGED <<isCurrentWorkspaceManager, listVars, pageVars, showModal, activeTab, isLoading, gitUrl,
                   gitBranch, name, file, mounts, requestVars, submitted>>

\* useInstallSkill's mutationFn: post(url, { body: payload })
useInstallSkill(payload) ==
    [url |-> "/workspaces/current/tool-provider/skill/install", body |-> payload]

\* variant: the name is appended whatever it is
useUploadSkill_alwaysName(payload) ==
    [url |-> "/workspaces/current/tool-provider/skill/upload",
     body |-> << <<"file", payload.file>>, <<"name", payload.name>> >>]

\* useUploadSkill's mutationFn: the FormData, as the entries appended to it
useUploadSkill(payload) ==
    [url |-> "/workspaces/current/tool-provider/skill/upload",
     body |-> << <<"file", payload.file>> >>
              \o (IF payload.name # undefined /\ payload.name # <<>>
                    THEN << <<"name", payload.name>> >>
                    ELSE <<>>)]

\* the request the mutation fn sends when it is called with payload
mutationFn(fn, payload) ==
    IF fn = "installSkill" THEN useInstallSkill(payload) ELSE useUploadSkill(payload)

\* setIsLoading(true) and the call of the mutation, up to the await
submitRequest(fn, payload) ==
    /\ issued < MaxSubmits
    /\ isLoading' = TRUE
    /\ issued' = issued + 1
    /\ inflight' = inflight \cup {[id |-> issued + 1, inst |-> mounts, tab |-> activeTab]}
    /\ submitted' = remember(form)
    /\ calls' = << Call(fn, payload, issued + 1),
                   Call("post", mutationFn(fn, payload), issued + 1) >>
    /\ UNCHANGED <<isCurrentWorkspaceManager, listVars, pageVars, showModal, activeTab, gitUrl, gitBranch,
                   name, file, mounts, rejected>>

\* variant: the request is chosen by what is filled in, not by the tab
handleSubmit_byContent ==
    /\ showModal
    /\ ~submitDisabled
    /\ IF ~gitUrlMissing
          THEN submitRequest("installSkill", installPayload)
          ELSE IF fileMissing
                 THEN submitInvalid("tools.skill.errors.fileRequired")
                 ELSE submitRequest("uploadSkill", uploadPayload)

handleSubmit ==
    /\ showModal
    /\ ~submitDisabled
    /\ IF activeTab = "git"
          THEN IF gitUrlMissing
                 THEN submitInvalid("tools.skill.errors.gitUrlRequired")
                 ELSE submitRequest("installSkill", installPayload)
          ELSE IF fileMissing
                 THEN submitInvalid("tools.skill.errors.fileRequired")
                 ELSE submitRequest("uploadSkill", uploadPayload)

\* useInvalidateSkillProviders()
invalidateSkillProviders == useInvalid(<<NAME_SPACE, "skill-providers">>)

Ids(providers) == { providers[i].id : i \in 1..Len(providers) }

ProviderById(id) == CHOOSE provider \in SkillProviders : provider.id = id

\* the server answers an install or an upload with the provider it has
\* created, whose id no other provider of the workspace has
created(provider) ==
    /\ provider \notin Ids(server)
    /\ server' = server \o <<ProviderById(provider)>>

\* SkillList.handleCreate up to its await: refetch() fetches the list, as
\* does the invalidation of the list, whose query the page observes
handleCreate(provider) ==
    /\ listFetching' = TRUE
    /\ creating' = creating \cup {provider}

\* whether the SkillModal that issued request r is the one mounted now
mountedIssuer(r) == showModal /\ r.inst = mounts

\* variant: the list is invalidated twice (by the modal and again for the caller)
successCalls_twice(r, provider) ==
    << Call("invalidateSkillProviders", none, r.id),
       Call("Toast.notify",
            [type |-> "success", message |-> "tools.skill.installSuccess"], r.id),
       Call("onConfirm", provider, r.id),
       Call("invalidateSkillProviders", none, r.id),
       Call("onHide", none, r.id) >>

\* the calls of the try block after the await
successCalls(r, provider) ==
    << Call("invalidateSkillProviders", none, r.id),
       Call("Toast.notify",
            [type |-> "success", message |-> "tools.skill.installSuccess"], r.id),
       Call("onConfirm", provider, r.id),
       Call("onHide", none, r.id) >>

\* the try block after the await, then finally: onHide unmounts the modal
\* that is shown, whichever instance issued the request
handleSubmitResolved(r, provider) ==
    /\ r \in inflight
    /\ inflight' = inflight \ {r}
    /\ created(provider)
    /\ calls' = successCalls(r, provider)
    /\ invalidateSkillProviders
    /\ handleCreate(provider)
    /\ onHide
    /\ UNCHANGED <<isCurrentWorkspaceManager, listVars, mounts, issued, rejected,
                   selectionVars, cardVars, detailVars>>

\* error?.message || t(fallback)
errorMessage(error, fallback) ==
    IF "message" \in DOMAIN error /\ error.message # "" THEN error.message ELSE fallback

fallbackMessage(tab) ==
    IF tab = "git" THEN "tools.skill.errors.installFailed"
                   ELSE "tools.skill.errors.uploadFailed"

\* variant: the list is invalidated in the catch block too
failureCalls_invalidates(r, error) ==
    << Call("Toast.notify",
            [type |-> "error",
             message |-> errorMessage(error, fallbackMessage(r.tab))], r.id),
       Call("invalidateSkillProviders", none, r.id) >>

\* the call of the catch block
failureCalls(r, error) ==
    << Call("Toast.notify",
            [type |-> "error",
             message |-> errorMessage(error, fallbackMessage(r.tab))], r.id) >>

\* variant: there is no finally block, the catch block leaves isLoading set
handleSubmitRejected_noFinally(r, error) ==
    /\ r \in inflight
    /\ inflight' = inflight \ {r}
    /\ rejected' = rejected \cup {r.id}
    /\ calls' = << Call("Toast.notify",
                        [type |-> "error",
                         message |-> errorMessage(error, fallbackMessage(r.tab))], r.id) >>
    /\ UNCHANGED <<isCurrentWorkspaceManager, listVars, pageVars, showModal, activeTab, gitUrl,
                   gitBranch, name, file, mounts, issued, isLoading, submitted>>

\* variant: a failure resets the fields of the form
handleSubmitRejected_resets(r, error) ==
    /\ r \in inflight
    /\ inflight' = inflight \ {r}
    /\ rejected' = rejected \cup {r.id}
    /\ calls' = << Call("Toast.notify",
                        [type |-> "error",
                         message |-> errorMessage(error, fallbackMessage(r.tab))], r.id) >>
    /\ IF mountedIssuer(r)
          THEN /\ isLoading' = FALSE
               /\ submitted' = remember(null)
               /\ gitUrl' = <<>>
               /\ file' = null
          ELSE UNCHANGED <<isLoading, submitted, gitUrl, file>>
    /\ UNCHANGED <<isCurrentWorkspaceManager, listVars, pageVars, showModal, activeTab, gitBranch,
                   name, mounts, issued>>

\* the catch block, then finally; a state setter of an unmounted component
\* does nothing
handleSubmitRejected(r, error) ==
    /\ r \in inflight
    /\ inflight' = inflight \ {r}
    /\ rejected' = rejected \cup {r.id}
    /\ calls' = failureCalls(r, error)
    /\ IF mountedIssuer(r)
          THEN isLoading' = FALSE /\ submitted' = remember(null)
          ELSE UNCHANGED <<isLoading, submitted>>
    /\ UNCHANGED <<isCurrentWorkspaceManager, listVars, pageVars, showModal, activeTab, gitUrl, gitBranch,
                   name, file, mounts, issued>>

\* the cancel button
cancel ==
    /\ showModal
    /\ ~cancelDisabled
    /\ calls' = <<Call("onHide", none, 0)>>
    /\ onHide
    /\ UNCHANGED <<isCurrentWorkspaceManager, listVars, pageVars, mounts, requestVars>>

\* <Modal isShow={show} onClose={onHide}>: the dialog's own close (Escape, a
\* click outside it) is handed onHide whatever isLoading is
onClose ==
    /\ showModal
    /\ calls' = <<Call("onHide", none, 0)>>
    /\ onHide
    /\ UNCHANGED <<isCurrentWorkspaceManager, listVars, pageVars, mounts, requestVars>>

Next ==
    \/ openModal
    \/ \E tab \in TabType : setActiveTab(tab)
    \/ \E value \in TextInputs : setGitUrl(value)
    \/ \E value \in TextInputs : setGitBranch(value)
    \/ \E value \in TextInputs : setName(value)
    \/ \E selectedFile \in PickedFiles : handleFileChange(selectedFile)
    \/ handleSubmit
    \/ \E r \in inflight, provider \in ProviderIds : handleSubmitResolved(r, provider)
    \/ \E r \in inflight, error \in Errors : handleSubmitRejected(r, error)
    \/ cancel
    \/ onClose

Spec == Init /\ [][Next]_vars

\* the runs of the last modal of a session, with the history of its submits
\* kept: the modals before it were opened and cancelled
RetryInit ==
    /\ isCurrentWorkspaceManager = TRUE
    /\ PageRendered
    /\ mounts = MaxMounts - 1
    /\ submitted = null
    /\ calls = IF mounts > 0 THEN <<Call("onHide", none, 0)>> ELSE <<>>
    /\ SkillPageCached
    /\ SkillListMounted
    /\ server = <<>>
    /\ listFetching = FALSE

SpecRetry == RetryInit /\ [][Next]_vars

\* ---------------------------------------------------------------- SkillList
\* variant: the search text is matched as typed against the lowered fields
matchesSearch_asTyped(provider, text) ==
    IF text # <<>>
      THEN \/ includes(toLowerCase(provider.name), text)
           \/ includes(toLowerCase(provider.skill_identifier), text)
      ELSE TRUE

\* the callback of list.filter
matchesSearch(provider, text) ==
    IF text # <<>>
      THEN \/ includes(toLowerCase(provider.name), toLowerCase(text))
           \/ includes(toLowerCase(provider.skill_identifier), toLowerCase(text))
      ELSE TRUE

RECURSIVE filter(_, _)
filter(providers, text) ==
    IF providers = <<>>
      THEN <<>>
      ELSE IF matchesSearch(Head(providers), text)
             THEN <<Head(providers)>> \o filter(Tail(providers), text)
             ELSE filter(Tail(providers), text)

\* the parent renders SkillList with another searchText; the memo is recomputed
\* SkillList's memo currentProvider
find(providers, id) ==
    IF \E i \in 1..Len(providers) : providers[i].id = id
    THEN providers[CHOOSE i \in 1..Len(providers) :
                       /\ providers[i].id = id
                       /\ \A j \in 1..(i - 1) : providers[j].id # id]
    ELSE noProvider

\* filteredList.map(provider => <SkillCard key={provider.id} .../>): a card
\* that is no longer rendered loses its state, and the handleDelete it left
\* awaiting sets the state of no card
cardsRendered(shown) ==
    /\ isShowDeleteConfirm' = isShowDeleteConfirm \cap Ids(shown)
    /\ deleting' = deleting \cap Ids(shown)
    /\ deletes' = { [d EXCEPT !.live = d.live /\ d.id \in Ids(shown)] : d \in deletes }

setSearchText(text) ==
    /\ searchText' = text
    /\ filteredList' = filter(list, text)
    /\ cardsRendered(filteredList')
    /\ UNCHANGED <<list, cacheVars, fetchVars, selectionVars, detailVars,
                   isCurrentWorkspaceManager, modalVars, calls>>

\* the render of SkillList with new data: the memos are recomputed
listRendered(data) ==
    /\ list' = data
    /\ filteredList' = filter(data, searchText)
    /\ cardsRendered(filteredList')

\* enabled: !!providerId
enabled_always(id) == TRUE

enabled(id) == id # absent /\ id # ""

\* useSkillProviderDetail(providerId) when SkillDetailContent mounts or gets
\* another providerId: the query of the key is built, and fetched if enabled
\* (nothing in the cache is fresh: staleTime is 0)
useSkillProviderDetail(id) ==
    /\ cached' = cached \cup {useSkillProviderDetailKey(id)}
    /\ detailFetching' = IF enabled(id) THEN detailFetching \cup {id} ELSE detailFetching
    /\ detailData' = detailData

\* {currentProvider && <SkillDetailPanel detail={currentProvider} .../>},
\* which renders <SkillDetailContent providerId={detail.id}/>
panelRendered(provider) ==
    /\ providerId' = IF provider = noProvider THEN unmounted ELSE provider.id
    /\ IF provider = noProvider \/ provider.id = providerId
          THEN UNCHANGED <<cached, detailFetching, detailData>>
          ELSE useSkillProviderDetail(provider.id)

\* variant: the selected provider is looked up among the cards shown
currentProviderMemo_shown == find(filteredList', currentProviderID')

\* useMemo(() => list.find(provider => provider.id === currentProviderID),
\* [list, currentProviderID])
currentProviderMemo == find(list', currentProviderID')

\* the render of SkillList after list or currentProviderID has been set
selectionRendered ==
    /\ currentProvider' = currentProviderMemo
    /\ panelRendered(currentProvider')

\* useSkillProviders() delivers data
listFetched(data) ==
    /\ listRendered(data)
    /\ UNCHANGED <<searchText, stale, fetchVars, currentProviderID,
                   isCurrentWorkspaceManager, modalVars, calls>>
    /\ selectionRendered

\* SkillCard: onClick={() => handleSelect(data.id)}, handleSelect being
\* setCurrentProviderID
handleSelect(id) ==
    /\ id \in Ids(filteredList)
    /\ currentProviderID' = id
    /\ calls' = <<>>
    /\ UNCHANGED <<isCurrentWorkspaceManager, listVars, stale, fetchVars, cardVars,
                   modalVars>>
    /\ selectionRendered

\* SkillDetailPanel: onHide={() => setCurrentProviderID(undefined)}
detailOnHide ==
    /\ currentProvider # noProvider
    /\ currentProviderID' = absent
    /\ calls' = <<>>
    /\ UNCHANGED <<isCurrentWorkspaceManager, listVars, stale, fetchVars, cardVars,
                   modalVars>>
    /\ selectionRendered

\* the first render of SkillList: data defaults to [], no modal is shown
ListInit ==
    /\ Init
    /\ isCurrentWorkspaceManager

ListNext ==
    \/ \E text \in SearchTexts : setSearchText(text)
    \/ \E data \in ProviderLists : listFetched(data)
    \/ \E id \in Ids(filteredList) : handleSelect(id)
    \/ detailOnHide

SpecList == ListInit /\ [][ListNext]_vars

\* ---------------------------------------------------------------- skill page
\* useSkillProviders(): the list is fetched again whenever its query is
\* invalidated or refetch() is called, a newer fetch replacing the one in
\* flight; the answer is the server's list
\* handleCreate after its await: setCurrentProviderID(provider.id); of
\* several awaiting the same fetch the last to run decides
\* variant: the selection the user made while the list was fetched is kept
selectedAfterRefetch_kept ==
    IF creating = {} \/ currentProviderID # absent THEN {currentProviderID} ELSE creating

selectedAfterRefetch == IF creating = {} THEN {currentProviderID} ELSE creating

listFetchResolved ==
    /\ listFetching
    /\ listFetching' = FALSE
    /\ listRendered(server)
    /\ stale' = stale \ {useSkillProvidersKey}
    /\ \E id \in selectedAfterRefetch : currentProviderID' = id
    /\ creating' = {}
    /\ calls' = <<>>
    /\ UNCHANGED <<isCurrentWorkspaceManager, searchText, server, modalVars>>
    /\ selectionRendered

\* the fetch fails: the query keeps its data, refetch() resolves all the same
listFetchRejected ==
    /\ listFetching
    /\ listFetching' = FALSE
    /\ \E id \in selectedAfterRefetch : currentProviderID' = id
    /\ creating' = {}
    /\ calls' = <<>>
    /\ UNCHANGED <<isCurrentWorkspaceManager, listVars, stale, server, cardVars,
                   modalVars>>
    /\ selectionRendered

\* variant: the operation menu is rendered for every member
canRemove_anyone == TRUE

\* {isCurrentWorkspaceManager && <OperationDropdown onRemove={showDeleteConfirm}/>}
canRemove == isCurrentWorkspaceManager

showDeleteConfirm(id) ==
    /\ canRemove
    /\ id \in Ids(filteredList)
    /\ isShowDeleteConfirm' = isShowDeleteConfirm \cup {id}
    /\ calls' = <<>>
    /\ UNCHANGED <<isCurrentWorkspaceManager, listVars, cacheVars, fetchVars, selectionVars,
                   detailVars, deleting, deletes, modalVars>>

\* <Confirm onCancel={hideDeleteConfirm}>
hideDeleteConfirm(id) ==
    /\ id \in isShowDeleteConfirm
    /\ isShowDeleteConfirm' = isShowDeleteConfirm \ {id}
    /\ calls' = <<>>
    /\ UNCHANGED <<isCurrentWorkspaceManager, listVars, cacheVars, fetchVars, selectionVars,
                   detailVars, deleting, deletes, modalVars>>

\* a DELETE request of the card of provider id
DeleteRequest(id) == [id |-> id, live |-> TRUE]

\* variant: the request is sent without showDeleting()
handleDelete_unflagged(id) ==
    /\ id \in isShowDeleteConfirm
    /\ id \notin deleting
    /\ deletes' = deletes \cup {DeleteRequest(id)}
    /\ calls' = <<Call("deleteSkill", id, 0)>>
    /\ UNCHANGED <<isCurrentWorkspaceManager, listVars, cacheVars, fetchVars, selectionVars,
                   detailVars, isShowDeleteConfirm, deleting, modalVars>>

\* <Confirm onConfirm={handleDelete} isDisabled={deleting}>: handleDelete up
\* to its await
handleDelete(id) ==
    /\ id \in isShowDeleteConfirm
    /\ id \notin deleting
    /\ deleting' = deleting \cup {id}
    /\ deletes' = deletes \cup {DeleteRequest(id)}
    /\ calls' = <<Call("deleteSkill", id, 0)>>
    /\ UNCHANGED <<isCurrentWorkspaceManager, listVars, cacheVars, fetchVars, selectionVars,
                   detailVars, isShowDeleteConfirm, modalVars>>

\* the server has deleted the provider: useDeleteSkill's onSuccess, then
\* handleDelete after its await, onDeleted being refetch
deleteResolved(d) ==
    /\ d \in deletes
    /\ d.id \in Ids(server)
    /\ server' = SelectSeq(server, LAMBDA provider : provider.id # d.id)
    /\ invalidateSkillProviders
    /\ deleting' = IF d.live THEN deleting \ {d.id} ELSE deleting
    /\ isShowDeleteConfirm' = IF d.live THEN isShowDeleteConfirm \ {d.id}
                                        ELSE isShowDeleteConfirm
    /\ deletes' = deletes \ {d}
    /\ listFetching' = TRUE
    /\ calls' = <<Call("invalidateSkillProviders", none, 0), Call("onDeleted", none, 0)>>
    /\ UNCHANGED <<isCurrentWorkspaceManager, listVars, creating, selectionVars, detailVars,
                   modalVars>>

\* the request is rejected: the await throws and handleDelete ends there
deleteRejected(d) ==
    /\ d \in deletes
    /\ deletes' = deletes \ {d}
    /\ calls' = <<>>
    /\ UNCHANGED <<isCurrentWorkspaceManager, listVars, cacheVars, fetchVars, selectionVars,
                   detailVars, isShowDeleteConfirm, deleting, modalVars>>

\* what is typed on the page: a URL to install
PageGitUrls == { <<" ", "a", " ">> }

\* the providers of the workspace, in the order of their creation
ServerProviders ==
    << ProviderById("skill-3"), ProviderById("skill-1"), ProviderById("skill-2") >>

\* the page with an empty search box, whose first fetch of the list is still
\* in flight; the workspace has
\* MaxServer providers; a manager has had all the modals and submits of the
\* session but one, those submits rejected and those modals cancelled
PageInit ==
    /\ isCurrentWorkspaceManager \in BOOLEAN
    /\ showModal = FALSE
    /\ activeTab = "git"
    /\ isLoading = FALSE
    /\ gitUrl = <<>>
    /\ gitBranch = main
    /\ name = <<>>
    /\ file = null
    /\ inflight = {}
    /\ mounts = IF isCurrentWorkspaceManager THEN MaxMounts - 1 ELSE 0
    /\ issued = IF isCurrentWorkspaceManager THEN MaxSubmits - 1 ELSE 0
    /\ rejected = 1..issued
    /\ submitted = untracked
    /\ calls = IF mounts > 0 THEN <<Call("onHide", none, 0)>> ELSE <<>>
    /\ list = <<>>
    /\ searchText = <<>>
    /\ filteredList = <<>>
    /\ SkillPageCached
    /\ SkillListMounted
    /\ server = SubSeq(ServerProviders, 1, MaxServer)
    /\ listFetching = TRUE

PageNext ==
    \/ listFetchResolved
    \/ listFetchRejected
    \/ \E id \in Ids(filteredList) : handleSelect(id)
    \/ detailOnHide
    \/ \E id \in Ids(filteredList) : showDeleteConfirm(id)
    \/ \E id \in isShowDeleteConfirm : hideDeleteConfirm(id)
    \/ \E id \in isShowDeleteConfirm : handleDelete(id)
    \/ \E d \in deletes : deleteResolved(d)
    \/ \E d \in deletes : deleteRejected(d)
    \/ openModal
    \/ \E value \in PageGitUrls : setGitUrl(value)
    \/ handleSubmit
    \/ \E r \in inflight, provider \in ProviderIds : handleSubmitResolved(r, provider)
    \/ \E r \in inflight, error \in Errors : handleSubmitRejected(r, error)
    \/ cancel

SpecPage == PageInit /\ [][PageNext]_vars

\* ---------------------------------------------------------------- SkillDetailContent
\* what SkillDetailContent may be given as providerId: the id of a provider,
\* an empty id, no id
DetailIds == { provider.id : provider \in SkillProviders } \cup { "", absent }

\* <SkillDetailContent providerId={id}/> is mounted, or rendered with
\* another id
detailRendered(id) ==
    /\ id # providerId
    /\ providerId' = id
    /\ useSkillProviderDetail(id)
    /\ UNCHANGED <<isCurrentWorkspaceManager, modalVars, listVars, stale, fetchVars,
                   selectionVars, cardVars, calls>>

detailUnmounted ==
    /\ providerId # unmounted
    /\ providerId' = unmounted
    /\ UNCHANGED <<isCurrentWorkspaceManager, modalVars, listVars, cacheVars, fetchVars,
                   selectionVars, cardVars, detailFetching, detailData, calls>>

\* the fetch of a detail succeeds: the query has data and is fresh
detailResolved(id) ==
    /\ id \in detailFetching
    /\ detailFetching' = detailFetching \ {id}
    /\ detailData' = detailData \cup {id}
    /\ stale' = stale \ {useSkillProviderDetailKey(id)}
    /\ UNCHANGED <<isCurrentWorkspaceManager, modalVars, listVars, cached, fetchVars,
                   selectionVars, cardVars, providerId, calls>>

\* the fetch of a detail fails for good: the query keeps the data it had
detailRejected(id) ==
    /\ id \in detailFetching
    /\ detailFetching' = detailFetching \ {id}
    /\ UNCHANGED <<isCurrentWorkspaceManager, modalVars, listVars, cacheVars, fetchVars,
                   selectionVars, cardVars, providerId, detailData, calls>>

\* const { data: detail, isLoading } = useSkillProviderDetail(providerId):
\* isLoading is the first fetch of the query being in flight
detailIsLoading == providerId \in detailFetching /\ providerId \notin detailData

hasDetail == providerId \in detailData

\* what SkillDetailContent returns
SkillDetailContent ==
    IF providerId = unmounted THEN "unmounted"
    ELSE IF detailIsLoading THEN "Loading"
    ELSE IF ~hasDetail THEN "null"
    ELSE "fields"

\* the content on its own, under a manager's page that shows nothing else
DetailInit ==
    /\ Init
    /\ isCurrentWorkspaceManager

DetailNext ==
    \/ \E id \in DetailIds : detailRendered(id)
    \/ detailUnmounted
    \/ \E id \in detailFetching : detailResolved(id)
    \/ \E id \in detailFetching : detailRejected(id)

SpecDetail == DetailInit /\ [][DetailNext]_vars

\* ---------------------------------------------------------------- invalidation hooks
\* the function a hook built on useInvalid returns, called
invalidate(key) ==
    /\ useInvalid(key)
    /\ calls' = <<>>
    /\ UNCHANGED <<isCurrentWorkspaceManager, modalVars, listVars, fetchVars, selectionVars,
                   cardVars, detailVars>>

\* the function a hook built on useQueryClient returns, called
invalidateScoped(queryKey) ==
    /\ invalidateQueries(queryKey)
    /\ calls' = <<>>
    /\ UNCHANGED <<isCurrentWorkspaceManager, modalVars, listVars, fetchVars, selectionVars,
                   cardVars, detailVars>>

useInvalidateAllToolProviders == invalidate(useAllToolProvidersKey)
useInvalidateAllBuiltInTools == invalidate(useAllBuiltInToolsKey)
useInvalidateAllCustomTools == invalidate(useAllCustomToolsKey)
useInvalidateAllWorkflowTools == invalidate(useAllWorkflowToolsKey)
useInvalidateAllMCPTools == invalidate(useAllMCPToolsKey)
useInvalidateAllSkillTools == invalidate(useAllSkillToolsKey)

\* type ? useInvalidToolsKeyMap[type] : undefined
toolsKeyByType(type) ==
    IF type # absent /\ type # "" THEN useInvalidToolsKeyMap(type) ELSE undefined

useInvalidToolsByType(type) == invalidate(toolsKeyByType(type))

useInvalidateMCPTools(providerID) ==
    invalidateScoped(<<NAME_SPACE, "get-MCP-provider-tool", providerID>>)

useInvalidateMCPServerDetail(appID) ==
    invalidateScoped(<<NAME_SPACE, "MCPServerDetail", appID>>)

useInvalidateSkillProviders == invalidate(<<NAME_SPACE, "skill-providers">>)

useInvalidateSkillProviderDetail(id) ==
    invalidateScoped(<<NAME_SPACE, "skill-provider-detail", id>>)

useInvalidateBuiltinProviderInfo(providerName) ==
    invalidateScoped(<<NAME_SPACE, "builtin-provider-info", providerName>>)

useInvalidateRAGRecommendedPlugins(type) ==
    invalidateScoped(useRAGRecommendedPluginListKey \o <<type>>)

useInvalidateAppTriggers(appId) ==
    invalidateScoped(<<NAME_SPACE, "app-triggers", appId>>)

\* a stale query is fetched again and is fresh
refetched(queryKey) ==
    /\ queryKey \in stale
    /\ stale' = stale \ {queryKey}
    /\ cached' = cached
    /\ calls' = <<>>
    /\ UNCHANGED <<isCurrentWorkspaceManager, modalVars, listVars, fetchVars, selectionVars,
                   cardVars, detailVars>>

\* a session that has put some of the queries of the module into the cache
CacheInit ==
    /\ isCurrentWorkspaceManager = TRUE
    /\ PageRendered
    /\ mounts = 0
    /\ submitted = untracked
    /\ calls = <<>>
    /\ cached \in { queries \in SUBSET QueryKeys : Cardinality(queries) <= MaxCached }
    /\ stale = {}
    /\ SkillListMounted
    /\ server = <<>>
    /\ listFetching = FALSE

CacheNext ==
    \/ useInvalidateAllToolProviders
    \/ useInvalidateAllBuiltInTools
    \/ useInvalidateAllCustomTools
    \/ useInvalidateAllWorkflowTools
    \/ useInvalidateAllMCPTools
    \/ useInvalidateAllSkillTools
    \/ \E type \in TypeInputs : useInvalidToolsByType(type)
    \/ \E providerID \in ScopeIds : useInvalidateMCPTools(providerID)
    \/ \E appID \in ScopeIds : useInvalidateMCPServerDetail(appID)
    \/ useInvalidateSkillProviders
    \/ \E id \in ScopeIds : useInvalidateSkillProviderDetail(id)
    \/ \E providerName \in ScopeIds : useInvalidateBuiltinProviderInfo(providerName)
    \/ \E type \in RAGTypes : useInvalidateRAGRecommendedPlugins(type)
    \/ \E appId \in ScopeIds : useInvalidateAppTriggers(appId)
    \/ \E queryKey \in QueryKeys : refetched(queryKey)

SpecCache == CacheInit /\ [][CacheNext]_vars

\* ---------------------------------------------------------------- id-scoped query hooks
\* the ids a component may hand to a hook that is scoped by an id: the id of
\* something, the empty string, and undefined
HookIds == ProviderIds \cup { "", absent }

\* !!id
truthy(id) == id # absent /\ id # ""

\* `${id}` between the two parts of a template literal
template(before, id, after) ==
    <<before, IF id = absent THEN "undefined" ELSE id, after>>

\* the options a caller may hand to useAppTriggers: none, and objects with or
\* without a field 'enabled'
undefinedOptions == [field \in {} |-> TRUE]
AppTriggersOptions ==
    { undefinedOptions, [enabled |-> TRUE], [enabled |-> FALSE], [staleTime |-> 0] }

\* { ...literal, ...options }: a field of options replaces the one of the
\* literal written before the spread
spread(literal, options) == options @@ literal

\* the options each hook hands to useQuery
useMCPTools(providerID) ==
    [ enabled |-> truthy(providerID),
      queryKey |-> useMCPToolsKey(providerID),
      queryFn |-> template("/workspaces/current/tool-provider/mcp/tools/", providerID, "") ]

useMCPServerDetail(appID) ==
    [ queryKey |-> useMCPServerDetailKey(appID),
      queryFn |-> template("/apps/", appID, "/server") ]

useSkillProviderDetailOptions(id) ==
    [ enabled |-> enabled(id),
      queryKey |-> useSkillProviderDetailKey(id),
      queryFn |-> template("/workspaces/current/tool-provider/skill/", id, "") ]

useBuiltinProviderInfo(providerName) ==
    [ queryKey |-> useBuiltinProviderInfoKey(providerName),
      queryFn |-> template("/workspaces/current/tool-provider/builtin/", providerName, "/info") ]

useBuiltinTools(providerName) ==
    [ enabled |-> truthy(providerName),
      queryKey |-> useBuiltinToolsKey(providerName),
      queryFn |-> template("/workspaces/current/tool-provider/builtin/", providerName, "/tools") ]

useAppTriggers(appId, options) ==
    spread([ queryKey |-> useAppTriggersKey(appId),
             queryFn |-> template("/apps/", appId, "/triggers"),
             enabled |-> truthy(appId) ],
           options)

\* useQuery fetches on mount unless its options hold enabled: false
fetchesOnMount(options) ==
    IF "enabled" \in DOMAIN options THEN options.enabled ELSE TRUE

\* a component that uses a query hook mounts: the query of the key is built
\* and, when the options enable it, its queryFn is run (nothing in the cache
\* is fresh: staleTime is 0)
useQuery(options) ==
    /\ Cardinality(cached \cup {options.queryKey}) <= MaxCached
    /\ cached' = cached \cup {options.queryKey}
    /\ calls' = IF fetchesOnMount(options)
                    THEN <<Call("get", options.queryFn, 0)>>
                    ELSE <<>>
    /\ UNCHANGED <<isCurrentWorkspaceManager, modalVars, listVars, stale, fetchVars,
                   selectionVars, cardVars, detailVars>>

\* a session that has mounted no query of the module yet
QueryInit ==
    /\ isCurrentWorkspaceManager = TRUE
    /\ PageRendered
    /\ mounts = 0
    /\ submitted = untracked
    /\ calls = <<>>
    /\ cached = {}
    /\ stale = {}
    /\ SkillListMounted
    /\ server = <<>>
    /\ listFetching = FALSE

QueryNext ==
    \/ \E providerID \in HookIds : useQuery(useMCPTools(providerID))
    \/ \E appID \in HookIds : useQuery(useMCPServerDetail(appID))
    \/ \E id \in HookIds : useQuery(useSkillProviderDetailOptions(id))
    \/ \E providerName \in HookIds : useQuery(useBuiltinProviderInfo(providerName))
    \/ \E providerName \in HookIds : useQuery(useBuiltinTools(providerName))
    \/ \E appId \in HookIds : \E options \in AppTriggersOptions :
           useQuery(useAppTriggers(appId, options))

SpecQuery == QueryInit /\ [][QueryNext]_vars

\* ---------------------------------------------------------------- mutation hooks
\* a mutation hook with the mutationKey it hands to useMutation, undefined
\* when it hands none
Mutation(hook, mutationKey) == [hook |-> hook, mutationKey |-> mutationKey]

\* the mutation hooks of the module
MutationHooks ==
    { Mutation("useCreateMCP", <<NAME_SPACE, "create-mcp">>),
      Mutation("useUpdateMCP", <<NAME_SPACE, "update-mcp">>),
      Mutation("useDeleteMCP", <<NAME_SPACE, "delete-mcp">>),
      Mutation("useAuthorizeMCP", <<NAME_SPACE, "authorize-mcp">>),
      Mutation("useUpdateMCPAuthorizationToken", <<NAME_SPACE, "refresh-mcp-server-code">>),
      Mutation("useUpdateMCPTools", undefined),
      Mutation("useCreateMCPServer", <<NAME_SPACE, "create-mcp-server">>),
      Mutation("useUpdateMCPServer", <<NAME_SPACE, "update-mcp-server">>),
      Mutation("useRefreshMCPServerCode", <<NAME_SPACE, "refresh-mcp-server-code">>),
      Mutation("useInstallSkill", <<NAME_SPACE, "install-skill">>),
      Mutation("useUploadSkill", <<NAME_SPACE, "upload-skill">>),
      Mutation("useDeleteSkill", <<NAME_SPACE, "delete-skill">>),
      Mutation("useValidateSkill", <<NAME_SPACE, "validate-skill">>),
      Mutation("useUpdateProviderCredentials", <<NAME_SPACE, "update-provider-credentials">>),
      Mutation("useRemoveProviderCredentials", <<NAME_SPACE, "remove-provider-credentials">>),
      Mutation("useUpdateTriggerStatus", <<NAME_SPACE, "update-trigger-status">>) }

\* mutate() of a mutation hook: a mutation is built under the hook's
\* mutationKey and its request is sent
mutate(hook) ==
    /\ issued < MaxSubmits
    /\ issued' = issued + 1
    /\ inflight' = inflight \cup {[id |-> issued + 1, mutationKey |-> hook.mutationKey]}
    /\ calls' = <<Call("mutate", hook.mutationKey, issued + 1)>>
    /\ UNCHANGED <<isCurrentWorkspaceManager, showModal, activeTab, isLoading, gitUrl,
                   gitBranch, name, file, mounts, rejected, submitted, listVars, pageVars>>

\* the request of a mutation is answered
mutationSettled(r) ==
    /\ inflight' = inflight \ {r}
    /\ calls' = <<>>
    /\ UNCHANGED <<isCurrentWorkspaceManager, showModal, activeTab, isLoading, gitUrl,
                   gitBranch, name, file, mounts, issued, rejected, submitted, listVars,
                   pageVars>>

\* a session in which no mutation has run yet
MutationInit == QueryInit

MutationNext ==
    \/ \E hook \in MutationHooks : mutate(hook)
    \/ \E r \in inflight : mutationSettled(r)

SpecMutation == MutationInit /\ [][MutationNext]_vars

\* ================================================================ properties
\* what the properties say about strings, stated without the operators above
IsBlank(s) == \A i \in 1..Len(s) : s[i] = " "

\* t is s without the blanks at its two ends
IsTrimOf(t, s) ==
    \E i, j \in 0..Len(s) :
        /\ i + j <= Len(s)
        /\ \A k \in 1..i : s[k] = " "
        /\ \A k \in (Len(s) - j + 1)..Len(s) : s[k] = " "
        /\ t = SubSeq(s, i + 1, Len(s) - j)
        /\ t # <<>> => t[1] # " " /\ t[Len(t)] # " "

HasZipSuffix(s) ==
    /\ Len(s) >= 4
    /\ s[Len(s) - 3] = "."
    /\ s[Len(s) - 2] = "z"
    /\ s[Len(s) - 1] = "i"
    /\ s[Len(s)] = "p"

\* how many calls of fn a handler made
Count(log, fn) == Cardinality({ i \in 1..Len(log) : log[i].fn = fn })

IsToast(c, type) == c.fn = "Toast.notify" /\ c.arg.type = type

ErrorToast(message) ==
    Call("Toast.notify", [type |-> "error", message |-> message], 0)

RequestFns == { "installSkill", "uploadSkill" }

NoRequest(log) == \A i \in 1..Len(log) : log[i].fn \notin RequestFns

\* the request of the modal that is mounted, if it has one pending
PendingOfMounted == { r \in inflight : mountedIssuer(r) }

\* C1: on the git tab a submit with an empty or blank URL issues no request,
\* shows an error toast and calls neither onHide nor onConfirm: the modal stays
\* open, whatever was typed and whichever tabs were visited before
C1_BlankGitUrlSubmit ==
    [][ (handleSubmit /\ activeTab = "git" /\ IsBlank(gitUrl)) =>
            /\ NoRequest(calls')
            /\ UNCHANGED <<inflight, issued>>
            /\ \E i \in 1..Len(calls') : IsToast(calls'[i], "error")
            /\ Count(calls', "onHide") = 0
            /\ Count(calls', "onConfirm") = 0
            /\ showModal' /\ mounts' = mounts ]_vars

C1_Witness ==
    /\ showModal
    /\ activeTab = "git"
    /\ gitUrl = <<" ">>
    /\ name # <<>>
    /\ file # null
    /\ calls = <<ErrorToast("tools.skill.errors.gitUrlRequired")>>

\* C2: on the upload tab a submit without a selected file issues no request,
\* whatever the URL, branch and name fields hold; it shows an error toast and
\* the modal stays open
C2_NoFileSubmit ==
    [][ (handleSubmit /\ activeTab = "upload" /\ file = null) =>
            /\ NoRequest(calls')
            /\ UNCHANGED <<inflight, issued>>
            /\ \E i \in 1..Len(calls') : IsToast(calls'[i], "error")
            /\ Count(calls', "onHide") = 0
            /\ showModal' /\ mounts' = mounts ]_vars

C2_Witness ==
    /\ showModal
    /\ activeTab = "upload"
    /\ file = null
    /\ ~IsBlank(gitUrl)
    /\ calls = <<ErrorToast("tools.skill.errors.fileRequired")>>

\* C3: a file selection whose name does not end in ".zip" shows an error toast
\* and leaves the selected file as it was; a name ending in ".zip" becomes the
\* selected file, and no other step selects a file
C3_OnlyZipSelected ==
    [][ /\ \A f \in PickedFiles \ {undefined} :
              handleFileChange(f) =>
                  IF HasZipSuffix(f)
                    THEN file' = f
                    ELSE /\ file' = file
                         /\ \E i \in 1..Len(calls') : IsToast(calls'[i], "error")
        /\ (file' # file /\ file' # null) => HasZipSuffix(file') /\ uploadFormShown ]_vars

C3_Witness ==
    /\ uploadFormShown
    /\ file = <<"b", ".", "z", "i", "p">>
    /\ calls = <<ErrorToast("tools.skill.errors.invalidFileType")>>

\* C4: when the request of a submission resolves, the modal invalidates the
\* skill-provider list exactly once, shows exactly one success toast and no
\* error toast, calls onConfirm exactly once, with the provider the server
\* returned, and calls onHide exactly once
C4_SuccessOnce ==
    [][ \A r \in inflight, provider \in ProviderIds :
            handleSubmitResolved(r, provider) =>
                /\ Count(calls', "invalidateSkillProviders") = 1
                /\ Cardinality({ i \in 1..Len(calls') : IsToast(calls'[i], "success") }) = 1
                /\ Cardinality({ i \in 1..Len(calls') : IsToast(calls'[i], "error") }) = 0
                /\ Count(calls', "onConfirm") = 1
                /\ \A i \in 1..Len(calls') :
                       calls'[i].fn = "onConfirm" => calls'[i].arg = provider
                /\ Count(calls', "onHide") = 1
                /\ ~showModal' ]_vars

\* an upload resolved with skill-2 while the modal that issued it was mounted
C4_Witness ==
    /\ ~showModal
    /\ Len(calls) = 4
    /\ calls[3] = Call("onConfirm", "skill-2", 1)
    /\ inflight = {}
    /\ issued = 1
    /\ rejected = {}

\* C5 as stated: after a rejection the form holds the values it had when the
\* request was issued
C5_FormAsSubmitted ==
    [][ \A r \in inflight, error \in Errors :
            (handleSubmitRejected(r, error) /\ mountedIssuer(r)) => form' = submitted ]_vars

\* a step of the user on the form
FormEdit ==
    \/ \E tab \in TabType : setActiveTab(tab)
    \/ \E value \in TextInputs : setGitUrl(value) \/ setGitBranch(value) \/ setName(value)
    \/ \E selectedFile \in PickedFiles : handleFileChange(selectedFile)

\* C5, amended: a rejected request leads to no invalidation and to no call of
\* onConfirm or onHide, to one error toast carrying the message of the
\* rejection, or the fallback of the request's kind when it has none, and the
\* rejection changes none of activeTab, gitUrl, gitBranch, name and file; while
\* the request is pending only the user's own edits change them
C5_RejectionKeepsForm ==
    [][ /\ \A r \in inflight, error \in Errors :
              handleSubmitRejected(r, error) =>
                  /\ Count(calls', "invalidateSkillProviders") = 0
                  /\ Count(calls', "onConfirm") = 0
                  /\ Count(calls', "onHide") = 0
                  /\ showModal' = showModal
                  /\ Len(calls') = 1
                  /\ IsToast(calls'[1], "error")
                  /\ calls'[1].arg.message =
                         IF "message" \in DOMAIN error /\ error.message # ""
                           THEN error.message
                           ELSE IF r.tab = "git" THEN "tools.skill.errors.installFailed"
                                                 ELSE "tools.skill.errors.uploadFailed"
                  /\ form' = form
        /\ (submitted # null /\ submitted' # null /\ form' # form) => FormEdit ]_vars

\* a rejection arrived at a modal whose form still is as it was submitted
C5_Witness ==
    /\ showModal
    /\ ~isLoading
    /\ PendingOfMounted = {}
    /\ rejected # {}
    /\ activeTab = "upload"
    /\ file # null
    /\ Len(calls) = 1
    /\ calls[1] = Call("Toast.notify",
                       [type |-> "error", message |-> "tools.skill.errors.uploadFailed"], 1)

\* C6: no modal has more than one request in flight, and the install button of
\* the mounted modal is disabled while its request is pending
C6_OneInFlight ==
    /\ \A r1, r2 \in inflight : r1.inst = r2.inst => r1 = r2
    /\ PendingOfMounted # {} => isLoading /\ submitDisabled

\* two requests are in flight: one of a modal that was closed meanwhile, and
\* one of the modal mounted now, whose tab was switched and whose file was
\* picked after the submit
C6_Witness ==
    /\ Cardinality(inflight) = 2
    /\ \E r \in PendingOfMounted : r.tab = "git"
    /\ activeTab = "upload"
    /\ file # null

\* C7: the list is invalidated and onConfirm is called only in the step in
\* which a request issued earlier settles, for that request and only when it
\* resolves; for a rejected request neither ever happens
C7_AfterResolveOnly ==
    /\ [][ \A i \in 1..Len(calls') :
               calls'[i].fn \in { "invalidateSkillProviders", "onConfirm" } =>
                   \E r \in inflight :
                       /\ r.id = calls'[i].req
                       /\ r \notin inflight'
                       /\ r.id \notin rejected' ]_vars
    /\ [](\A i \in 1..Len(calls) :
               calls[i].fn \in { "invalidateSkillProviders", "onConfirm" } =>
                   calls[i].req \notin rejected)

\* the first request was rejected, the retry resolved
C7_Witness ==
    /\ rejected = {1}
    /\ Len(calls) = 4
    /\ calls[1] = Call("invalidateSkillProviders", none, 2)
    /\ calls[3].fn = "onConfirm"

\* the same letter, whatever its case
SameLetter(c, d) == c = d \/ {c, d} = {"a", "A"} \/ {c, d} = {"b", "B"}

\* t occurs in s at some offset, case ignored
ContainsIgnoringCase(s, t) ==
    \E offset \in 0..(Len(s) - Len(t)) :
        \A k \in 1..Len(t) : SameLetter(s[offset + k], t[k])

Wanted(provider) ==
    \/ ContainsIgnoringCase(provider.name, searchText)
    \/ ContainsIgnoringCase(provider.skill_identifier, searchText)

\* C8: the rendered list is the subsequence, in the order of the collection,
\* of the providers whose name or skill_identifier contains the search text,
\* case ignored; with an empty search text it is the collection itself
C8_FilteredList ==
    /\ filteredList = SelectSeq(list, Wanted)
    /\ searchText = <<>> => filteredList = list

\* "bA" finds skill-2 by its identifier "ba" only, and drops skill-1
C8_Witness ==
    /\ searchText = <<"b", "A">>
    /\ Len(list) = 2
    /\ list[1].id = "skill-1"
    /\ list[2].id = "skill-2"
    /\ Len(filteredList) = 1
    /\ filteredList[1].id = "skill-2"

\* C9: an install request carries source_type "git", the trimmed URL, which is
\* not empty, the trimmed branch or "main" when that is empty, and the trimmed
\* display name or undefined when that is empty; it is issued from the git tab
C9_InstallPayload ==
    \A i \in 1..Len(calls) :
        calls[i].fn = "installSkill" =>
            /\ activeTab = "git"
            /\ calls[i].arg.source_type = "git"
            /\ IsTrimOf(calls[i].arg.git_url, gitUrl)
            /\ calls[i].arg.git_url # <<>>
            /\ IF IsBlank(gitBranch)
                 THEN calls[i].arg.git_branch = <<"m", "a", "i", "n">>
                 ELSE IsTrimOf(calls[i].arg.git_branch, gitBranch)
            /\ IF IsBlank(name)
                 THEN calls[i].arg.name = undefined
                 ELSE IsTrimOf(calls[i].arg.name, name)

C9_Witness ==
    /\ Len(calls) = 2
    /\ calls[1].fn = "installSkill"
    /\ gitUrl = <<" ", "a", " ">>
    /\ gitBranch = <<" ">>
    /\ name = <<" ", "a", " ">>
    /\ calls[1].arg.git_branch = main
    /\ calls[1].arg.name = <<"a">>

\* C10: the active tab is one of git and upload, one form is rendered at a
\* time, and a tab switch changes activeTab only: the URL, the branch, the name
\* and the selected file keep their values while the modal stays mounted
C10_TabSwitchKeepsFields ==
    /\ [](activeTab \in { "git", "upload" } /\ (showModal => gitFormShown # uploadFormShown))
    /\ [][ /\ \A tab \in TabType :
                 setActiveTab(tab) =>
                     /\ activeTab' = tab
                     /\ UNCHANGED <<gitUrl, gitBranch, name, file, isLoading, showModal>>
           /\ (showModal /\ showModal' /\ mounts' = mounts /\ activeTab' # activeTab) =>
                 UNCHANGED <<gitUrl, gitBranch, name, file>> ]_vars

\* back on the git tab with the file chosen on the upload tab still selected
\* and the URL typed before still there
C10_Witness ==
    /\ gitFormShown
    /\ file # null
    /\ gitUrl = <<" ", "a", " ">>
    /\ gitBranch = <<>>

\* a key that is another one or begins it
IsPrefix(k1, k2) ==
    /\ Len(k1) <= Len(k2)
    /\ \A i \in 1..Len(k1) : k1[i] = k2[i]

\* the key of the cached list of a partition of the tools
PartitionKey(type) ==
    CASE type = "builtIn" -> <<"tools", "builtIn">>
      [] type = "custom" -> <<"tools", "customTools">>
      [] type = "workflow" -> <<"tools", "workflowTools">>
      [] type = "mcp" -> <<"tools", "MCPTools">>
      [] type = "skill" -> <<"tools", "skillTools">>

\* the cached query under key, and no other, becomes stale
Scoped(key) == stale' = stale \cup ({key} \cap cached)

\* C11: useInvalidToolsByType(type) invalidates the key of the partition that
\* type names, and that key only; called without a type, with the empty
\* string or with a string that names no partition it changes nothing in the
\* cache
C11_TypeKeyedInvalidation ==
    [][ \A type \in TypeInputs :
            useInvalidToolsByType(type) =>
                IF type \in { "builtIn", "custom", "workflow", "mcp", "skill" }
                  THEN Scoped(PartitionKey(type))
                  ELSE stale' = stale ]_vars

\* no cached query but the one under key becomes stale
Only(key) == stale \subseteq stale' /\ stale' \ stale \subseteq {key}

\* C12: no key of a query hook is the key of another hook or a prefix of it,
\* and the invalidation of a key of the module marks stale no cached query
\* but the one under that very key: not the list of another partition, and
\* not the entry of another id
C12_ScopedInvalidation ==
    /\ [](\A q1, q2 \in QueryHooks :
              (q1.hook # q2.hook /\ q1.queryKey \in cached /\ q2.queryKey \in cached) =>
                  ~IsPrefix(q1.queryKey, q2.queryKey))
    /\ [][ stale' # stale =>
           /\ useInvalidateAllToolProviders => Only(<<"tools", "allToolProviders">>)
           /\ useInvalidateAllBuiltInTools => Only(PartitionKey("builtIn"))
           /\ useInvalidateAllCustomTools => Only(PartitionKey("custom"))
           /\ useInvalidateAllWorkflowTools => Only(PartitionKey("workflow"))
           /\ useInvalidateAllMCPTools => Only(PartitionKey("mcp"))
           /\ useInvalidateAllSkillTools => Only(PartitionKey("skill"))
           /\ useInvalidateSkillProviders => Only(<<"tools", "skill-providers">>)
           /\ \A type \in { "builtIn", "custom", "workflow", "mcp", "skill" } :
                  useInvalidToolsByType(type) => Only(PartitionKey(type))
           /\ \A id \in ScopeIds :
                  /\ useInvalidateMCPTools(id) =>
                         Only(<<"tools", "get-MCP-provider-tool", id>>)
                  /\ useInvalidateMCPServerDetail(id) =>
                         Only(<<"tools", "MCPServerDetail", id>>)
                  /\ useInvalidateSkillProviderDetail(id) =>
                         Only(<<"tools", "skill-provider-detail", id>>)
                  /\ useInvalidateBuiltinProviderInfo(id) =>
                         Only(<<"tools", "builtin-provider-info", id>>)
                  /\ useInvalidateAppTriggers(id) =>
                         Only(<<"tools", "app-triggers", id>>)
           /\ \A type \in RAGTypes :
                  useInvalidateRAGRecommendedPlugins(type) =>
                      Only(<<"tools", "rag-recommended-plugins", type>>) ]_vars

\* the details of two skill providers are cached; the detail of the one was
\* invalidated and the other is fresh
C12_Witness ==
    /\ cached = { <<"tools", "skill-provider-detail", "skill-1">>,
                  <<"tools", "skill-provider-detail", "skill-2">> }
    /\ stale = { <<"tools", "skill-provider-detail", "skill-1">> }

\* the queries the call of this step has newly marked stale
marked == stale' \ stale

\* the cached views of the skill providers of the workspace
SkillCollectionKeys == { useSkillProvidersKey, useAllSkillToolsKey }

\* C13: when an install, an upload or a delete of a skill provider succeeds,
\* the queries marked stale are exactly the cached views of what changed on
\* the server: the provider list and the skill tool list and, for a delete,
\* the detail of the deleted provider; nothing else is marked
C13_ExactInvalidation ==
    [][ /\ (\E r \in inflight, provider \in ProviderIds : handleSubmitResolved(r, provider))
            => marked = (SkillCollectionKeys \cap cached) \ stale
        /\ \A d \in deletes :
              deleteResolved(d)
                => marked = ((SkillCollectionKeys \cup {useSkillProviderDetailKey(d.id)})
                                \cap cached) \ stale ]_vars

\* the detail panel is rendered, and for which provider
panelShown == providerId # unmounted

\* C14: the detail panel is shown exactly when the selected id is the id of
\* a provider of the full list, whether or not the search shows its card,
\* and it shows that provider; an id that is in the list no more gives no
\* panel; a click on a card selects the provider of the card
C14_PanelFollowsSelection ==
    /\ [](/\ panelShown <=> currentProviderID \in Ids(list)
          /\ panelShown =>
                /\ providerId = currentProviderID
                /\ currentProvider.id = currentProviderID
                /\ \E i \in 1..Len(list) : list[i] = currentProvider
          /\ ~panelShown => currentProvider = noProvider)
    /\ [][\A id \in Ids(filteredList) : handleSelect(id) => currentProviderID' = id]_vars

\* the panel of a provider that the search has filtered out of the cards
C14_Witness ==
    /\ panelShown
    /\ currentProviderID \in Ids(list) \ Ids(filteredList)

\* the selected provider is on the server no more, and no handleCreate is
\* about to select another
selectedDeleted ==
    /\ currentProviderID # absent
    /\ currentProviderID \notin Ids(server)
    /\ creating = {}

\* C15: once the provider that is selected has been deleted and the list
\* fetched again, nothing is selected and no detail panel is shown
C15_DeleteClearsSelection ==
    [][(selectedDeleted /\ listFetchResolved)
          => (currentProviderID' = absent /\ ~panelShown')]_vars

\* C16: a rejected request leaves the control that issued it ready for a
\* retry: the modal that submitted is not loading, a card whose delete was
\* rejected is not deleting, so its confirm button is enabled
C16_RejectionRestoresControl ==
    [][ /\ \A r \in inflight :
              (mountedIssuer(r) /\ \E error \in Errors : handleSubmitRejected(r, error))
                 => ~isLoading'
        /\ \A d \in deletes :
              (d.live /\ deleteRejected(d)) => d.id \notin deleting' ]_vars

\* C17: the create card and the delete operation of a card are rendered for
\* a workspace manager only; whatever a member who is no manager clicks, no
\* install modal and no delete confirmation is opened and no install, upload
\* or delete request is issued
C17_ManagerOnly ==
    /\ ENABLED openModal => isCurrentWorkspaceManager
    /\ (\E id \in Ids(filteredList) : ENABLED showDeleteConfirm(id))
          => isCurrentWorkspaceManager
    /\ ~isCurrentWorkspaceManager =>
          /\ ~showModal
          /\ mounts = 0
          /\ isShowDeleteConfirm = {}
          /\ inflight = {} /\ issued = 0
          /\ deletes = {} /\ deleting = {}
          /\ \A i \in 1..Len(calls) :
                calls[i].fn \notin RequestFns \cup {"deleteSkill"}

\* a member who is no manager looks at the detail of a provider
C17_Witness ==
    /\ ~isCurrentWorkspaceManager
    /\ panelShown
    /\ filteredList # <<>>

\* an id that useSkillProviderDetail may fetch
IsFetchable(id) == id # absent /\ id # "" /\ id # unmounted

\* C18: the detail of a provider is fetched only for an id that is defined
\* and not empty; while the first fetch of the id shown is in flight the
\* content is the loading placeholder; when that id has no detail and none is
\* being fetched the content is nothing; the fields are shown only for an id
\* whose detail a fetch has delivered
C18_DetailReadPath ==
    /\ [](/\ \A id \in detailFetching \cup detailData : IsFetchable(id)
          /\ (providerId \in detailFetching \ detailData)
                => SkillDetailContent = "Loading"
          /\ (providerId # unmounted /\ providerId \notin detailFetching \cup detailData)
                => SkillDetailContent = "null"
          /\ SkillDetailContent = "fields" => providerId \in detailData)
    /\ [][detailData' # detailData
             => \E id \in detailFetching :
                   /\ detailResolved(id)
                   /\ detailData' = detailData \cup {id}]_vars

\* the content shows nothing for an id whose fetch has failed
C18_Witness ==
    /\ IsFetchable(providerId)
    /\ SkillDetailContent = "null"
    /\ detailData # {}

uploadUrl == "/workspaces/current/tool-provider/skill/upload"

\* the entries of a form that are appended under field
FieldValues(formData, field) ==
    { i \in 1..Len(formData) : formData[i][1] = field }

\* C19: an upload request is a form with one file entry, a file whose name
\* ends in ".zip", and with a name entry, the trimmed display name, exactly
\* when that is not empty; the file the modal holds is null or such a file
C19_UploadForm ==
    /\ file = null \/ HasZipSuffix(file)
    /\ \A i \in 1..Len(calls) :
          (calls[i].fn = "post" /\ calls[i].arg.url = uploadUrl) =>
              LET formData == calls[i].arg.body IN
              /\ activeTab = "upload"
              /\ \A k \in 1..Len(formData) : formData[k][1] \in {"file", "name"}
              /\ Cardinality(FieldValues(formData, "file")) = 1
              /\ \A k \in FieldValues(formData, "file") : HasZipSuffix(formData[k][2])
              /\ IF IsBlank(name)
                    THEN FieldValues(formData, "name") = {}
                    ELSE /\ Cardinality(FieldValues(formData, "name")) = 1
                         /\ \A k \in FieldValues(formData, "name") :
                               IsTrimOf(formData[k][2], name)

\* an upload submitted with a display name of blanks: the form has no name
C19_Witness ==
    /\ Len(calls) = 2
    /\ calls[2].fn = "post"
    /\ calls[2].arg.url = uploadUrl
    /\ name = <<" ">>
    /\ Len(calls[2].arg.body) = 1

\* the calls of a log that send something to the server
Requests(log) == { i \in 1..Len(log) : log[i].fn \in RequestFns }
Posts(log) == { i \in 1..Len(log) : log[i].fn = "post" }

\* the form passes the validation of the active tab
PassesValidation ==
    IF activeTab = "git" THEN ~IsBlank(gitUrl) ELSE file # null

\* C20: a submit that passes validation calls one mutation, installSkill on
\* the git tab and uploadSkill on the upload tab whatever the other tab's
\* fields hold, and that mutation sends one request; a request is sent by a
\* submit only, so a rejected request is not sent again by itself
C20_OneRequestByTab ==
    /\ [][(handleSubmit /\ PassesValidation) =>
             /\ Cardinality(Requests(calls')) = 1
             /\ Cardinality(Posts(calls')) = 1
             /\ \A i \in Requests(calls') :
                   calls'[i].fn = IF activeTab = "git" THEN "installSkill" ELSE "uploadSkill"
             /\ \A i \in Posts(calls') :
                   calls'[i].arg.url = IF activeTab = "git"
                                          THEN "/workspaces/current/tool-provider/skill/install"
                                          ELSE uploadUrl
             /\ issued' = issued + 1
             /\ Cardinality(inflight') = Cardinality(inflight) + 1]_vars
    /\ [][(issued' # issued \/ Requests(calls') # {} \/ Posts(calls') # {}
              \/ ~(inflight' \subseteq inflight))
             => (handleSubmit /\ PassesValidation)]_vars

\* an install submitted from the git tab while a file is selected
C20_Witness ==
    /\ Requests(calls) # {}
    /\ calls[1].fn = "installSkill"
    /\ activeTab = "git"
    /\ file # null

\* C21: when an install or an upload succeeds the modal is hidden in the
\* same step, while the list handleCreate fetches again is still awaited
\* and the selection is as it was; once that fetch has settled the selected
\* id is the id of the new provider, whatever was selected meanwhile, and
\* its panel is shown when the list that was fetched holds it
C21_CreatedIsSelected ==
    /\ [][\A r \in inflight, provider \in ProviderIds :
             handleSubmitResolved(r, provider) =>
                /\ ~showModal'
                /\ listFetching'
                /\ provider \in creating'
                /\ UNCHANGED <<currentProviderID, list>>]_vars
    /\ [][(creating # {} /\ ~listFetching') =>
             /\ listFetchResolved \/ listFetchRejected
             /\ currentProviderID' \in creating
             /\ creating' = {}
             /\ (listFetchResolved /\ currentProviderID' \in Ids(list')) =>
                   /\ currentProvider'.id = currentProviderID'
                   /\ providerId' = currentProviderID']_vars
    /\ [][creating' # creating =>
             \/ creating' = {}
             \/ \E r \in inflight, provider \in ProviderIds :
                   handleSubmitResolved(r, provider)]_vars

\* the provider that was installed is selected and shown, the user having
\* opened the panel of another provider before
C21_Witness ==
    /\ creating = {}
    /\ currentProviderID \in ProviderIds
    /\ currentProviderID \notin Ids(SubSeq(ServerProviders, 1, MaxServer))
    /\ panelShown
    /\ useSkillProviderDetailKey("skill-3") \in cached

\* C22: a confirmed delete sends one DELETE for the provider of the card,
\* and the card is deleting while the request is pending; when it succeeds
\* the list is invalidated, then the card is deleting no more, its confirm
\* is closed and onDeleted is called once; the list fetched after that is
\* the server's, which has the provider no more
C22_DeleteSequence ==
    /\ [](\A d \in deletes : d.live => d.id \in deleting)
    /\ [][\A id \in isShowDeleteConfirm :
             handleDelete(id) =>
                /\ calls' = <<Call("deleteSkill", id, 0)>>
                /\ deletes' \ deletes = {DeleteRequest(id)}
                /\ id \in deleting']_vars
    /\ [][\A d \in deletes :
             deleteResolved(d) =>
                /\ Len(calls') = 2
                /\ calls'[1].fn = "invalidateSkillProviders"
                /\ calls'[2].fn = "onDeleted"
                /\ (useSkillProvidersKey \in cached => useSkillProvidersKey \in stale')
                /\ d.live => (d.id \notin deleting' /\ d.id \notin isShowDeleteConfirm')
                /\ d \notin deletes'
                /\ d.id \notin Ids(server')
                /\ listFetching']_vars
    /\ [][listFetchResolved => (list' = server /\ ~listFetching')]_vars

\* the delete of a card has succeeded and the list is being fetched again
C22_Witness ==
    /\ Len(calls) = 2
    /\ calls[2].fn = "onDeleted"
    /\ listFetching
    /\ deleting = {}
    /\ isShowDeleteConfirm = {}
    /\ Ids(list) \ Ids(server) # {}

\* one error toast and nothing else
OneErrorToast(log) == Len(log) = 1 /\ IsToast(log[1], "error")

\* C23: a submit with a blank git URL or without a file, and the pick of a
\* file whose name does not end in ".zip", leave the tab, the URL, the branch,
\* the name, the file and the loading flag as they are and show one error
\* toast
C23_ValidationFailureFrame ==
    /\ [][(handleSubmit /\ ~PassesValidation) =>
             /\ UNCHANGED <<activeTab, gitUrl, gitBranch, name, file, isLoading>>
             /\ OneErrorToast(calls')]_vars
    /\ [][\A selectedFile \in PickedFiles \ {undefined} :
             (~HasZipSuffix(selectedFile) /\ handleFileChange(selectedFile)) =>
                /\ UNCHANGED <<activeTab, gitUrl, gitBranch, name, file, isLoading>>
                /\ OneErrorToast(calls')]_vars

\* a file that is no .zip was picked while a .zip and a URL were held
C23_Witness ==
    /\ calls = <<ErrorToast("tools.skill.errors.invalidFileType")>>
    /\ file # null
    /\ gitUrl # <<>>
    /\ showModal

\* C24: the modal is loading exactly while a request it has submitted is
\* pending; the flag is raised by a submit that passes validation only, and
\* it is down again once the request has settled, resolved or rejected
C24_LoadingIffPending ==
    /\ [](isLoading <=> PendingOfMounted # {})
    /\ [][(~isLoading /\ isLoading') => (handleSubmit /\ PassesValidation)]_vars
    /\ [][\A r \in PendingOfMounted : r \notin inflight' => ~isLoading']_vars

\* the request of the modal was rejected: the modal is shown and not loading
C24_Witness ==
    /\ showModal
    /\ ~isLoading
    /\ OneErrorToast(calls)
    /\ calls[1].req \in rejected
    /\ calls[1].req # 0

\* C25: onHide is called by a close of a modal that has no request pending
\* or by the success of a request, never while a request of the modal that
\* is shown is pending; a request that succeeds finds the modal that
\* submitted it still shown, so onConfirm is not called for a closed modal
C25_NoCloseInFlight ==
    [][ /\ (Count(calls', "onHide") > 0 /\ PendingOfMounted # {})
              => \E r \in PendingOfMounted : r \notin inflight' /\ r.id \notin rejected'
        /\ Count(calls', "onConfirm") > 0
              => \E r \in PendingOfMounted : r \notin inflight' ]_vars

\* the hooks that are scoped by an id, each with the id it was given
ScopedQueries(id) ==
    { useMCPTools(id), useMCPServerDetail(id), useSkillProviderDetailOptions(id),
      useBuiltinProviderInfo(id), useBuiltinTools(id) }
        \cup { useAppTriggers(id, options) : options \in AppTriggersOptions }

\* C26: a hook that is scoped by an id and is given an empty or undefined id
\* requests nothing, whatever else it is given
C26_NoFetchWithoutId ==
    [][ \A id \in HookIds : \A options \in ScopedQueries(id) :
            (useQuery(options) /\ ~IsFetchable(id)) => Count(calls', "get") = 0 ]_vars

\* C27: a modal that is opened starts with the git tab, an empty URL, the
\* branch "main", an empty name, no file and not loading, whatever the form
\* of the modal before it held and however that modal was closed
C27_ReopenedIsFresh ==
    [][ openModal =>
            /\ showModal'
            /\ activeTab' = "git"
            /\ gitUrl' = <<>>
            /\ gitBranch' = <<"m", "a", "i", "n">>
            /\ name' = <<>>
            /\ file' = null
            /\ ~isLoading' ]_vars

\* the modal was opened again after an install of the modal before it had
\* succeeded
C27_Witness ==
    /\ showModal
    /\ mounts = 2
    /\ issued = 1
    /\ inflight = {}
    /\ rejected = {}
    /\ calls = <<>>
    /\ gitUrl = <<>>
    /\ activeTab = "git"

\* C28: a mutation that runs under a mutationKey runs under a key that no
\* other mutation hook of the module declares
C28_MutationKeysInjective ==
    [][ \A hook \in MutationHooks :
            (mutate(hook) /\ hook.mutationKey # undefined) =>
                \A other \in MutationHooks :
                    other.mutationKey = hook.mutationKey => other.hook = hook.hook ]_vars

====
